---- MODULE Spec2Model ----
(***************************************************************************)
(* Model of the brontes pricing sub-graph (PairSubGraph, dijkstra_path)     *)
(* and of the UniswapV2 action decoders.                                    *)
(*                                                                          *)
(* Rationals (malachite::Rational) are pairs <<n, d>> in lowest terms with  *)
(* d > 0, so that equality of rationals is equality of pairs.               *)
(***************************************************************************)
EXTENDS Integers, Sequences, FiniteSets, TLC

\* ------------------------------------------------------------------------
\* Bounds
\* ------------------------------------------------------------------------
\* largest number of pools handed to PairSubGraph::init in one run
MaxPools == 4

\* block numbers run from 1 to MaxBlock
MaxBlock == 3

\* ------------------------------------------------------------------------
\* Exact rational arithmetic
\* ------------------------------------------------------------------------
RECURSIVE GCD(_, _)
GCD(a, b) == IF b = 0 THEN a ELSE GCD(b, a % b)

\* n / d with g their greatest common divisor; values are never negative
Norm(n, d, g) == <<n \div g, d \div g>>
Rat(n, d) == Norm(n, d, GCD(n, d))

ZERO == <<0, 1>>
ONE == <<1, 1>>

\* what an operation yields when it panics, written with the denominator
\* zero that no rational has; an operation on it panics too
Panic == <<0, 0>>

\* numerators and denominators are cancelled before they are multiplied, so
\* that intermediate values stay as small as the results
AddWith(a, b, g) ==
    Rat(a[1] * (b[2] \div g) + b[1] * (a[2] \div g), (a[2] \div g) * b[2])
RAdd(a, b) ==
    IF a[2] = 0 \/ b[2] = 0 THEN Panic ELSE AddWith(a, b, GCD(a[2], b[2]))
MulWith(a, b, g1, g2) ==
    <<(a[1] \div g1) * (b[1] \div g2), (a[2] \div g2) * (b[2] \div g1)>>
RMul(a, b) ==
    IF a[2] = 0 \/ b[2] = 0 THEN Panic
    ELSE MulWith(a, b, GCD(a[1], b[2]), GCD(b[1], a[2]))
\* Rational::reciprocal: "Cannot take reciprocal of zero."
Reciprocal(a) == IF a[1] = 0 THEN Panic ELSE <<a[2], a[1]>>
\* Rational::div panics on a zero divisor
RDiv(a, b) == RMul(a, Reciprocal(b))
LessWith(a, b, g) == a[1] * (b[2] \div g) < b[1] * (a[2] \div g)
RLess(a, b) == LessWith(a, b, GCD(a[2], b[2]))
RLeq(a, b) == ~RLess(b, a)

\* ------------------------------------------------------------------------
\* Inputs: the pool universe and the pool-state snapshot
\* ------------------------------------------------------------------------
None == [kind |-> "None"]

Tokens == {"A", "B", "C", "D"}

\* PoolPairInformation { pool_addr, token_0, token_1 }
PoolInfo ==
    [P1 |-> [token_0 |-> "A", token_1 |-> "B"],
     P2 |-> [token_0 |-> "A", token_1 |-> "B"],
     P3 |-> [token_0 |-> "A", token_1 |-> "C"],
     P4 |-> [token_0 |-> "C", token_1 |-> "B"],
     P5 |-> [token_0 |-> "A", token_1 |-> "D"],
     P6 |-> [token_0 |-> "D", token_1 |-> "C"]]

PoolIds == DOMAIN PoolInfo
PoolOrder == <<"P1", "P2", "P3", "P4", "P5", "P6">>

\* A pool state quoted with token_0 as base: price (token_1 per token_0) and
\* the two liquidity sides priced in token_0.
PoolStates ==
    { [price |-> <<1, 1>>,   l0 |-> <<0, 1>>,  l1 |-> <<0, 1>>],
      [price |-> <<1, 1>>,   l0 |-> <<1, 1>>,  l1 |-> <<0, 1>>],
      [price |-> <<1, 4>>,   l0 |-> <<1, 1>>,  l1 |-> <<1, 1>>],
      [price |-> <<26, 25>>, l0 |-> <<3, 1>>,  l1 |-> <<0, 1>>] }

\* a live pool that reports the price zero
ZeroPriceState == [price |-> <<0, 1>>, l0 |-> <<1, 1>>, l1 |-> <<1, 1>>]

\* the states a pool may be in: one pool of the universe may report the
\* price zero
PoolStatesOf(p) ==
    IF p = "P1" THEN PoolStates \cup {ZeroPriceState} ELSE PoolStates

\* the snapshots of a set of pools
Snapshots(present) ==
    { st \in [present -> PoolStates \cup {ZeroPriceState}] :
        \A p \in present : st[p] \in PoolStatesOf(p) }

\* which directions of every pool are edges of the sub-graph
DirModes == {"t0in", "both"}

\* the pairs a price is requested for, in the order of the requests: the
\* two directions of one pair, then a pair of one token with itself; every
\* request builds its own subgraph and runs its own search, so the order of
\* the requests has no effect on any outcome
PairRequests == << <<"A", "B">>, <<"B", "A">>, <<"A", "A">> >>

\* the request served next, given the outcomes so far
NextRequest(done) == PairRequests[Cardinality(DOMAIN done) + 1]

\* PoolPairInfoDirection { info, token_0_in } wrapped in a SubGraphEdge
SubGraphEdge(p, t0in) ==
    [pool_addr |-> p, token_0 |-> PoolInfo[p].token_0,
     token_1 |-> PoolInfo[p].token_1, token_0_in |-> t0in]

\* PoolPairInfoDirection::get_base_token: the token that goes in
get_base_token(e) == IF e.token_0_in THEN e.token_0 ELSE e.token_1
get_quote_token(e) == IF e.token_0_in THEN e.token_1 ELSE e.token_0

\* PoolState::get_price(base): quote tokens per base token
get_price(ps, e) == IF e.token_0_in THEN ps.price ELSE Reciprocal(ps.price)

\* PoolState::get_tvl(base): (base side, other side), both priced in base
get_tvl(ps, e) ==
    IF e.token_0_in THEN <<ps.l0, ps.l1>>
    ELSE <<RMul(ps.l1, ps.price), RMul(ps.l0, ps.price)>>

RECURSIVE EdgeList(_, _, _)
EdgeList(present, mode, i) ==
    IF i > Len(PoolOrder) THEN <<>>
    ELSE LET p == PoolOrder[i]
             here == IF p \notin present THEN <<>>
                     ELSE IF mode = "both"
                          THEN <<SubGraphEdge(p, TRUE), SubGraphEdge(p, FALSE)>>
                          ELSE <<SubGraphEdge(p, TRUE)>>
         IN  here \o EdgeList(present, mode, i + 1)

\* ------------------------------------------------------------------------
\* State
\* ------------------------------------------------------------------------
VARIABLES
    edges,       \* the edge list given to PairSubGraph::init (flattened)
    state,       \* edge_state: pool_addr -> PoolState
    sg,          \* the PairSubGraph, or None before init
    pc,          \* position: idle, ready, run, done, panicked
    visited,     \* dijkstra_path: visited nodes
    scores,      \* dijkstra_path: node -> best cumulative cost so far
    node_price,  \* dijkstra_path: node -> running price
    visit_next,  \* dijkstra_path: the frontier heap, a set of entries
    relaxed,     \* the edge computations of the latest node expansion
    via,         \* node -> node path along which node_price was last set
    ret,         \* value returned by dijkstra_path
    prices,      \* pair -> outcome of fetch_price for that pair
    db,          \* metadata store: result of get::<AddressToTokens>(pool)
    frame,       \* the call frame last handed to dispatch, or None
    decoded,     \* what dispatch returned for it: None or (msg, action)
    args,        \* RunArgs: start_block, end_block, run_dex_pricing
    libmdbx,     \* persisted state: what the store holds per block
    rpc,         \* position of RunArgs::execute
    result,      \* value returned by RunArgs::execute, or None
    spawned,     \* whether the Brontes task was spawned
    processed,   \* the blocks the orchestrator has processed
    env,         \* what execute finds around it: environment, chain tip
    added        \* the edge last passed to add_new_node, or None

vars == <<edges, state, sg, pc, visited, scores, node_price, visit_next,
          relaxed, via, ret, prices, db, frame, decoded,
          args, libmdbx, rpc, result, spawned, processed, env, added>>

\* the variables of the pricing graph and those of the classifier
pvars == <<edges, state, sg, pc, visited, scores, node_price, visit_next,
           relaxed, via, ret, prices>>
cvars == <<db, frame, decoded>>
\* the variables of the run command
rvars == <<args, libmdbx, rpc, result, spawned, processed, env>>

\* the record of the calls of add_new_node
xvars == <<added>>

\* no run command was started
RunIdle ==
    /\ args = None
    /\ libmdbx = None
    /\ rpc = "off"
    /\ result = None
    /\ spawned = FALSE
    /\ processed = {}
    /\ env = None

dvars == <<visited, scores, node_price, visit_next, relaxed, via, ret>>

Empty == [x \in {} |-> None]

\* ------------------------------------------------------------------------
\* PairSubGraph::init
\* ------------------------------------------------------------------------
\* fault variant: every edge is filed under (token_0, token_1), whatever its
\* direction
InitStep_token_0_key(acc, edge) ==
    LET t0 == edge.token_0
        t1 == edge.token_1
        tti0 == IF t0 \in DOMAIN acc.token_to_index
                THEN acc.token_to_index
                ELSE acc.token_to_index @@ (t0 :> acc.node_count)
        tti1 == IF t1 \in DOMAIN tti0
                THEN tti0
                ELSE tti0 @@ (t1 :> acc.node_count + 1)
        key == <<t0, t1>>
        conn == IF key \in DOMAIN acc.connections
                THEN [acc.connections EXCEPT ![key] = Append(@, edge)]
                ELSE acc.connections @@ (key :> <<edge>>)
    IN  [node_count |-> acc.node_count + 2,
         token_to_index |-> tti1,
         connections |-> conn]

\* One iteration of the loop over the edges.  `or_insert(graph.add_node(()))`
\* evaluates its argument before the lookup, so every iteration allocates
\* two nodes whether or not the tokens are new.
InitStep(acc, edge) ==
    LET t0 == edge.token_0
        t1 == edge.token_1
        tti0 == IF t0 \in DOMAIN acc.token_to_index
                THEN acc.token_to_index
                ELSE acc.token_to_index @@ (t0 :> acc.node_count)
        tti1 == IF t1 \in DOMAIN tti0
                THEN tti0
                ELSE tti0 @@ (t1 :> acc.node_count + 1)
        key == <<get_base_token(edge), get_quote_token(edge)>>
        conn == IF key \in DOMAIN acc.connections
                THEN [acc.connections EXCEPT ![key] = Append(@, edge)]
                ELSE acc.connections @@ (key :> <<edge>>)
    IN  [node_count |-> acc.node_count + 2,
         token_to_index |-> tti1,
         connections |-> conn]

RECURSIVE InitLoop(_, _, _)
InitLoop(acc, es, i) ==
    IF i > Len(es) THEN acc ELSE InitLoop(InitStep(acc, es[i]), es, i + 1)

InitAcc(es) ==
    InitLoop([node_count |-> 0, token_to_index |-> Empty,
              connections |-> Empty], es, 1)

\* the unwraps of token_to_index.get(&pair.0) / get(&pair.1)
InitPanics(pair, acc) ==
    \/ pair[1] \notin DOMAIN acc.token_to_index
    \/ pair[2] \notin DOMAIN acc.token_to_index

\* extend_with_edges over the connections, and the struct that init returns
BuildSubGraph(pair, acc) ==
    [pair |-> pair,
     node_count |-> acc.node_count,
     token_to_index |-> acc.token_to_index,
     graph |-> { [source |-> acc.token_to_index[k[1]],
                  target |-> acc.token_to_index[k[2]],
                  weight |-> acc.connections[k]]
                 : k \in DOMAIN acc.connections },
     start_node |-> acc.token_to_index[pair[1]],
     end_node |-> acc.token_to_index[pair[2]]]

init(pair, es) == BuildSubGraph(pair, InitAcc(es))

\* ------------------------------------------------------------------------
\* dijkstra_path
\* ------------------------------------------------------------------------
\* the accumulation loop over the pools of one bundle
RECURSIVE BundleLoop(_, _, _, _)
BundleLoop(st, bundle, i, acc) ==
    IF i > Len(bundle) THEN acc
    ELSE LET info == bundle[i]
             pool_state == st[info.pool_addr]
             price == get_price(pool_state, info)
             tv == get_tvl(pool_state, info)
             t0 == tv[1]
             t1 == tv[2]
         IN  BundleLoop(st, bundle, i + 1,
                 [pxw |-> RAdd(acc.pxw, RMul(price, RAdd(t0, t1))),
                  weight |-> RAdd(acc.weight, RAdd(t0, t1)),
                  token_0_am |-> RAdd(acc.token_0_am, t0),
                  token_1_am |-> RAdd(acc.token_1_am, t1),
                  last_price |-> price])

BundleSums(st, bundle) ==
    BundleLoop(st, bundle, 1,
        [pxw |-> ZERO, weight |-> ZERO, token_0_am |-> ZERO,
         token_1_am |-> ZERO, last_price |-> ZERO])

\* `if weight == Rational::ZERO { continue }`
SkipEdge(sums) == sums.weight = ZERO

\* fault variant: the price of the last pool instead of the weighted mean
local_weighted_price_last(sums) == sums.last_price

local_weighted_price(sums) == RDiv(sums.pxw, sums.weight)

\* fault variant: the reciprocal is left out
new_price_no_reciprocal(price, lwp) == RMul(price, lwp)

\* `let new_price = price * local_weighted_price.reciprocal()`
\* where `price` is the price popped with the node
new_price(price, lwp) == RMul(price, Reciprocal(lwp))

\* fault variant: the bundle is priced with the last pool's price instead of
\* the price popped with the node
edge_tvl_last_price(sums, price) ==
    LET lwp == RDiv(sums.pxw, sums.weight)
    IN  RAdd(RMul(sums.token_0_am, sums.last_price),
             RMul(sums.token_1_am, RDiv(sums.last_price, lwp)))

\* After the loop over the bundle, `price` is again the price popped from the
\* frontier with the node (the loop's own `price` is scoped to its body).
edge_tvl(sums, price) ==
    LET token_0_priced == RMul(sums.token_0_am, price)
        token_1_priced ==
            RMul(sums.token_1_am, new_price(price, local_weighted_price(sums)))
    IN  RAdd(token_0_priced, token_1_priced)

next_score(sums, node_score, price) ==
    RAdd(node_score, Reciprocal(edge_tvl(sums, price)))

\* `if next_score < *ent.get()`
Improves(nscore, old) == RLess(nscore, old)

\* fault variant: an edge of zero weight is passed through at no cost
\* instead of being skipped
EdgeCalc_no_skip(st, e, node_score, price) ==
    LET sums == BundleSums(st, e.weight)
    IN  IF sums.pxw = Panic
        THEN [source |-> e.source, next |-> e.target, skipped |-> FALSE,
              panicked |-> TRUE,
              sums |-> sums, node_score |-> node_score, price |-> price]
        ELSE IF sums.weight = ZERO
        THEN [source |-> e.source, next |-> e.target, skipped |-> FALSE,
              panicked |-> FALSE,
              sums |-> sums, node_score |-> node_score, price |-> price,
              lwp |-> ONE, new_price |-> price, tvl |-> ZERO,
              next_score |-> node_score]
        ELSE IF next_score(sums, node_score, price) = Panic
        THEN [source |-> e.source, next |-> e.target, skipped |-> FALSE,
              panicked |-> TRUE,
              sums |-> sums, node_score |-> node_score, price |-> price]
        ELSE [source |-> e.source, next |-> e.target, skipped |-> FALSE,
              panicked |-> FALSE,
              sums |-> sums, node_score |-> node_score, price |-> price,
              lwp |-> local_weighted_price(sums),
              new_price |-> new_price(price, local_weighted_price(sums)),
              tvl |-> edge_tvl(sums, price),
              next_score |-> next_score(sums, node_score, price)]

\* everything the loop body computes for one edge of the popped node.  The
\* body panics when a price of the bundle cannot be taken (in the loop over
\* the bundle, before the weight test), or when the weighted price or the
\* bundle TVL is zero where its reciprocal is taken (after the weight test).
EdgeCalc(st, e, node_score, price) ==
    LET sums == BundleSums(st, e.weight)
    IN  IF sums.pxw = Panic
        THEN [source |-> e.source, next |-> e.target, skipped |-> FALSE,
              panicked |-> TRUE,
              sums |-> sums, node_score |-> node_score, price |-> price]
        ELSE IF SkipEdge(sums)
        THEN [source |-> e.source, next |-> e.target, skipped |-> TRUE,
              panicked |-> FALSE,
              sums |-> sums, node_score |-> node_score, price |-> price]
        ELSE IF next_score(sums, node_score, price) = Panic
        THEN [source |-> e.source, next |-> e.target, skipped |-> FALSE,
              panicked |-> TRUE,
              sums |-> sums, node_score |-> node_score, price |-> price]
        ELSE [source |-> e.source, next |-> e.target, skipped |-> FALSE,
              panicked |-> FALSE,
              sums |-> sums, node_score |-> node_score, price |-> price,
              lwp |-> local_weighted_price(sums),
              new_price |-> new_price(price, local_weighted_price(sums)),
              tvl |-> edge_tvl(sums, price),
              next_score |-> next_score(sums, node_score, price)]

\* the entries BinaryHeap::pop may return: those of least score (MinScored
\* reverses the order; the heap does not order entries of equal score)
MinEntries(heap) ==
    { m \in heap : \A o \in heap : RLeq(m.score, o.score) }

\* the edge computations that record a score (Vacant, or Occupied and better)
Recorded(calcs, sc) ==
    { c \in calcs : /\ ~c.skipped
                    /\ ~c.panicked
                    /\ \/ c.next \notin DOMAIN sc
                       \/ Improves(c.next_score, sc[c.next]) }

\* ------------------------------------------------------------------------
\* Actions
\* ------------------------------------------------------------------------
Init ==
    /\ \E present \in SUBSET PoolIds, mode \in DirModes :
          /\ Cardinality(present) <= MaxPools
          /\ edges = EdgeList(present, mode, 1)
          /\ state \in Snapshots(present)
    /\ sg = None
    /\ pc = "idle"
    /\ visited = {}
    /\ scores = Empty
    /\ node_price = Empty
    /\ visit_next = {}
    /\ relaxed = {}
    /\ via = Empty
    /\ ret = None
    /\ prices = Empty
    /\ db = None
    /\ frame = None
    /\ decoded = None
    /\ RunIdle
    /\ added = None

\* PairSubGraph::init(pair, edges)
NewSubGraph(pair) ==
    /\ pc \in {"idle", "done", "panicked"}
    /\ Cardinality(DOMAIN prices) < Len(PairRequests)
    /\ pair = NextRequest(prices)
    /\ \E acc \in {InitAcc(edges)} :
          /\ ~InitPanics(pair, acc)
          /\ sg' = BuildSubGraph(pair, acc)
    /\ pc' = "ready"
    /\ UNCHANGED <<edges, state, prices>>
    /\ UNCHANGED dvars
    /\ UNCHANGED <<cvars, rvars, xvars>>

\* PairSubGraph::init(pair, edges) when a token of the pair is on no edge
NewSubGraphPanic(pair) ==
    /\ pc \in {"idle", "done", "panicked"}
    /\ Cardinality(DOMAIN prices) < Len(PairRequests)
    /\ pair = NextRequest(prices)
    /\ InitPanics(pair, InitAcc(edges))
    /\ prices' = prices @@ (pair :> [kind |-> "init_panic"])
    /\ pc' = "panicked"
    /\ UNCHANGED <<edges, state, sg>>
    /\ UNCHANGED dvars
    /\ UNCHANGED <<cvars, rvars, xvars>>

\* fetch_price calls dijkstra_path, which sets up its maps and the frontier
FetchPrice ==
    /\ pc = "ready"
    /\ visited' = {}
    /\ scores' = (sg.start_node :> ZERO)
    /\ node_price' = Empty
    /\ visit_next' = {[score |-> ZERO, node |-> sg.start_node, price |-> ONE]}
    /\ relaxed' = {}
    /\ via' = (sg.start_node :> <<sg.start_node>>)
    /\ ret' = None
    /\ pc' = "run"
    /\ UNCHANGED <<edges, state, sg, prices>>
    /\ UNCHANGED <<cvars, rvars, xvars>>

\* pop of an entry whose node is already visited: `continue`
PopVisited ==
    /\ pc = "run"
    /\ \E m \in MinEntries(visit_next) :
          /\ m.node \in visited
          /\ visit_next' = visit_next \ {m}
    /\ UNCHANGED <<edges, state, sg, pc, visited, scores, node_price,
                   relaxed, via, ret, prices>>
    /\ UNCHANGED <<cvars, rvars, xvars>>

\* `node_price.remove(&goal).map(|p| p.reciprocal())`
DijkstraResult(np, goal) ==
    IF goal \in DOMAIN np THEN Reciprocal(np[goal]) ELSE None

\* fetch_price: `.expect("dijsktrs on a subgraph failed, ...")`
FetchOutcome(r) ==
    IF r = None \/ r = Panic THEN [kind |-> "panic"]
    ELSE [kind |-> "price", value |-> r]

\* the loop is left: dijkstra_path returns and fetch_price unwraps the result
Return ==
    /\ ret' = DijkstraResult(node_price, sg.end_node)
    /\ prices' = prices @@
          (sg.pair :> FetchOutcome(DijkstraResult(node_price, sg.end_node)))
    /\ pc' = "done"

\* pop of the goal: `break`, and the return
PopGoal ==
    /\ pc = "run"
    /\ \E m \in MinEntries(visit_next) :
          /\ m.node \notin visited
          /\ m.node = sg.end_node
          /\ visit_next' = visit_next \ {m}
    /\ Return
    /\ UNCHANGED <<edges, state, sg, visited, scores, node_price,
                   relaxed, via>>
    /\ UNCHANGED <<cvars, rvars, xvars>>

\* pop of an unvisited node other than the goal: the loop over its edges
ExpandNode ==
    /\ pc = "run"
    /\ \E m \in MinEntries(visit_next) :
          /\ m.node \notin visited
          /\ m.node # sg.end_node
          /\ \E calcs \in {{ EdgeCalc(state, e, m.score, m.price) :
                              e \in { x \in sg.graph :
                                        /\ x.source = m.node
                                        /\ x.target \notin visited } }} :
             /\ \A c \in calcs : ~c.panicked
             /\ \E rec \in {Recorded(calcs, scores)} :
                \E tgt \in {{ c.next : c \in rec }} :
                LET calcOf(n) == CHOOSE c \in rec : c.next = n
                IN  /\ relaxed' = calcs
                    /\ scores' = [n \in DOMAIN scores \cup tgt |->
                                    IF n \in tgt THEN calcOf(n).next_score
                                    ELSE scores[n]]
                    /\ node_price' = [n \in DOMAIN node_price \cup tgt |->
                                    IF n \in tgt THEN calcOf(n).new_price
                                    ELSE node_price[n]]
                    /\ via' = [n \in DOMAIN via \cup tgt |->
                                    IF n \in tgt THEN Append(via[m.node], n)
                                    ELSE via[n]]
                    /\ visit_next' = (visit_next \ {m}) \cup
                           { [score |-> c.next_score, node |-> c.next,
                              price |-> c.new_price] : c \in rec }
                    /\ visited' = visited \cup {m.node}
    /\ UNCHANGED <<edges, state, sg, pc, ret, prices>>
    /\ UNCHANGED <<cvars, rvars, xvars>>

\* pop of an unvisited node other than the goal, when the loop over its
\* edges panics on one of them: the panic unwinds dijkstra_path and
\* fetch_price, whatever the loop had recorded for the edges before it
ExpandPanic ==
    /\ pc = "run"
    /\ \E m \in MinEntries(visit_next) :
          /\ m.node \notin visited
          /\ m.node # sg.end_node
          /\ \E calcs \in {{ EdgeCalc(state, e, m.score, m.price) :
                              e \in { x \in sg.graph :
                                        /\ x.source = m.node
                                        /\ x.target \notin visited } }} :
                /\ \E c \in calcs : c.panicked
                /\ relaxed' = calcs
    /\ prices' = prices @@ (sg.pair :> [kind |-> "panic"])
    /\ pc' = "panicked"
    /\ UNCHANGED <<edges, state, sg, visited, scores, node_price,
                   visit_next, via, ret>>
    /\ UNCHANGED <<cvars, rvars, xvars>>

\* the frontier is empty: the loop ends, and the return
HeapEmpty ==
    /\ pc = "run"
    /\ visit_next = {}
    /\ Return
    /\ UNCHANGED <<edges, state, sg, visited, scores, node_price,
                   visit_next, relaxed, via>>
    /\ UNCHANGED <<cvars, rvars, xvars>>

Next ==
    \/ \E i \in DOMAIN PairRequests : NewSubGraph(PairRequests[i])
    \/ \E i \in DOMAIN PairRequests : NewSubGraphPanic(PairRequests[i])
    \/ FetchPrice
    \/ PopVisited
    \/ PopGoal
    \/ ExpandNode
    \/ ExpandPanic
    \/ HeapEmpty

Spec == Init /\ [][Next]_vars

TypeOK == pc \in {"idle", "ready", "run", "done", "panicked"}

\* ------------------------------------------------------------------------
\* Extension of a subgraph: PairSubGraph::add_new_node
\* ------------------------------------------------------------------------
\* the edges a caller may pass: any pool, in either direction
NewEdges == { SubGraphEdge(p, d) : p \in PoolIds, d \in BOOLEAN }

\* `self.token_to_index.get(&t0).unwrap()`, `...get(&t1).unwrap()`
AddPanics(g, edge) ==
    \/ edge.token_0 \notin DOMAIN g.token_to_index
    \/ edge.token_1 \notin DOMAIN g.token_to_index

\* add_new_node(&self, edge): looks the two nodes up and returns; `self` is
\* borrowed immutably and nothing is written
add_new_node(g, edge) == g

AddNewNode(edge) ==
    /\ pc = "ready"
    /\ ~AddPanics(sg, edge)
    /\ sg' = add_new_node(sg, edge)
    /\ added' = edge
    /\ UNCHANGED <<edges, state, pc, prices>>
    /\ UNCHANGED dvars
    /\ UNCHANGED <<cvars, rvars>>

\* a token of the edge is not a node of the subgraph: unwrap panics
AddNewNodePanic(edge) ==
    /\ pc = "ready"
    /\ AddPanics(sg, edge)
    /\ pc' = "panicked"
    /\ UNCHANGED <<edges, state, sg, prices, added>>
    /\ UNCHANGED dvars
    /\ UNCHANGED <<cvars, rvars>>

ExtendNext ==
    \/ \E i \in DOMAIN PairRequests : NewSubGraph(PairRequests[i])
    \/ \E i \in DOMAIN PairRequests : NewSubGraphPanic(PairRequests[i])
    \/ \E edge \in NewEdges : AddNewNode(edge)
    \/ \E edge \in NewEdges : AddNewNodePanic(edge)

ExtendSpec == Init /\ [][ExtendNext]_vars

\* ------------------------------------------------------------------------
\* UniswapV2 classifier: log patterns, decoders, dispatch
\* ------------------------------------------------------------------------
Amounts == {0, 45, 50, 90, 100}

Callers == {"E1"}
Recipients == {"R1", "R2"}
Pool == "PoolX"

SwapLogs ==
    [sig : {"Swap"}, amount0In : Amounts, amount1In : {0, 50},
     amount0Out : {0, 45}, amount1Out : {0, 90}]
MintLogs == [sig : {"Mint"}, amount0 : {0, 100}, amount1 : {0, 50}]
BurnLogs == [sig : {"Burn"}, amount0 : {0, 100}, amount1 : {0, 50}]
SyncLog == [sig |-> "Sync"]
TransferLog == [sig |-> "Transfer"]

\* the log lists a frame may carry
LogLists ==
    {<<>>, <<SyncLog>>, <<TransferLog, SyncLog>>}
    \cup { <<l>> : l \in SwapLogs }
    \cup { <<SyncLog, l>> : l \in SwapLogs }
    \cup { <<TransferLog, SyncLog, l>> : l \in MintLogs \cup BurnLogs }
    \cup { <<TransferLog, TransferLog, SyncLog, l>> : l \in MintLogs }

\* CallFrameInfo, with the `to` argument of the decoded call
Frames ==
    [selector : {"swap", "mint", "burn", "other"}, logs : LogLists,
     trace_index : {7}, from_address : Callers, target_address : {Pool},
     call_to : Recipients]

\* results of db_tx.get::<AddressToTokens>(target_address)
DbResults ==
    { [kind |-> "Ok", value |-> [token0 |-> "T0", token1 |-> "T1"]],
      [kind |-> "Ok", value |-> None],
      [kind |-> "Err"] }

\* fault variant: a failed or empty lookup yields default (zero) tokens
TokensOf_or_default(r) ==
    IF r.kind = "Ok" /\ r.value # None THEN r.value
    ELSE [token0 |-> "Zero", token1 |-> "Zero"]

\* `.ok()??`: the tokens, or None when the lookup fails or finds nothing
TokensOf(r) == IF r.kind = "Ok" THEN r.value ELSE None

Exact(sig) == [kind |-> "Exact", sig |-> sig]
Ignore(sig) == [kind |-> "Ignore", sig |-> sig]
PossibleIgnore(sig) == [kind |-> "PossibleIgnore", sig |-> sig]

\* One left-to-right pass of a pattern over the logs.  Exact must match the
\* log at the cursor; Ignore and Possible<Ignore> consume it when it has
\* their signature.  The pass succeeds when every Exact matched and every
\* log was consumed.
RECURSIVE MatchLogs(_, _, _, _)
MatchLogs(pattern, logs, i, j) ==
    IF i > Len(pattern) THEN j > Len(logs)
    ELSE LET here == j <= Len(logs) /\ logs[j].sig = pattern[i].sig
         IN  IF pattern[i].kind = "Exact"
             THEN here /\ MatchLogs(pattern, logs, i + 1, j + 1)
             ELSE IF here THEN MatchLogs(pattern, logs, i + 1, j + 1)
                  ELSE MatchLogs(pattern, logs, i + 1, j)

\* the field of the decoded-log struct for one signature; a signature that
\* is not among the logs leaves its amounts at zero
LogField(logs, sig) ==
    IF \E k \in 1..Len(logs) : logs[k].sig = sig
    THEN logs[CHOOSE k \in 1..Len(logs) :
                 /\ logs[k].sig = sig
                 /\ \A h \in 1..(k - 1) : logs[h].sig # sig]
    ELSE [sig |-> sig, amount0In |-> 0, amount1In |-> 0, amount0Out |-> 0,
          amount1Out |-> 0, amount0 |-> 0, amount1 |-> 0]

\* fault variant: the Swap log is optional
V2SwapPattern_optional == <<Ignore("Sync"), PossibleIgnore("Swap")>>

V2SwapPattern == <<Ignore("Sync"), Exact("Swap")>>
V2MintPattern ==
    <<PossibleIgnore("Transfer"), Ignore("Transfer"), Ignore("Sync"),
      Exact("Mint")>>
V2BurnPattern == <<Ignore("Transfer"), Ignore("Sync"), Exact("Burn")>>

\* fault variant: the amounts are taken from the side of the other branch
V2SwapImpl_wrong_side(trace_index, from_address, target_address, call_to, data, db_result) ==
    LET tokens == TokensOf(db_result)
    IN  IF tokens = None THEN None
        ELSE IF data.amount0In = 0
        THEN [kind |-> "Swap", pool |-> target_address,
              trace_index |-> trace_index, from |-> from_address,
              recipient |-> call_to, token_in |-> tokens.token1,
              token_out |-> tokens.token0, amount_in |-> data.amount0In,
              amount_out |-> data.amount1Out]
        ELSE [kind |-> "Swap", pool |-> target_address,
              trace_index |-> trace_index, from |-> from_address,
              recipient |-> call_to, token_in |-> tokens.token0,
              token_out |-> tokens.token1, amount_in |-> data.amount1In,
              amount_out |-> data.amount0Out]

\* the closure of V2SwapImpl
V2SwapImpl(trace_index, from_address, target_address, call_to, data, db_result) ==
    LET tokens == TokensOf(db_result)
    IN  IF tokens = None THEN None
        ELSE IF data.amount0In = 0
        THEN [kind |-> "Swap", pool |-> target_address,
              trace_index |-> trace_index, from |-> from_address,
              recipient |-> call_to, token_in |-> tokens.token1,
              token_out |-> tokens.token0, amount_in |-> data.amount1In,
              amount_out |-> data.amount0Out]
        ELSE [kind |-> "Swap", pool |-> target_address,
              trace_index |-> trace_index, from |-> from_address,
              recipient |-> call_to, token_in |-> tokens.token0,
              token_out |-> tokens.token1, amount_in |-> data.amount0In,
              amount_out |-> data.amount1Out]

\* the closure of V2MintImpl
V2MintImpl(trace_index, from_address, target_address, call_to, log_data, db_result) ==
    LET tokens == TokensOf(db_result)
    IN  IF tokens = None THEN None
        ELSE [kind |-> "Mint", recipient |-> call_to, from |-> from_address,
              trace_index |-> trace_index, to |-> target_address,
              token |-> <<tokens.token0, tokens.token1>>,
              amount |-> <<log_data.amount0, log_data.amount1>>]

\* the closure of V2BurnImpl
V2BurnImpl(trace_index, from_address, target_address, call_to, log_data, db_result) ==
    LET tokens == TokensOf(db_result)
    IN  IF tokens = None THEN None
        ELSE [kind |-> "Burn", recipient |-> call_to, to |-> target_address,
              trace_index |-> trace_index, from |-> from_address,
              token |-> <<tokens.token0, tokens.token1>>,
              amount |-> <<log_data.amount0, log_data.amount1>>]

\* the decoder registered for the frame's selector, applied when its log
\* pattern matches: the decoded action, or None
Decode(f, db_result) ==
    IF f.selector = "swap" /\ MatchLogs(V2SwapPattern, f.logs, 1, 1)
    THEN V2SwapImpl(f.trace_index, f.from_address, f.target_address,
                    f.call_to, LogField(f.logs, "Swap"), db_result)
    ELSE IF f.selector = "burn" /\ MatchLogs(V2BurnPattern, f.logs, 1, 1)
    THEN V2BurnImpl(f.trace_index, f.from_address, f.target_address,
                    f.call_to, LogField(f.logs, "Burn"), db_result)
    ELSE IF f.selector = "mint" /\ MatchLogs(V2MintPattern, f.logs, 1, 1)
    THEN V2MintImpl(f.trace_index, f.from_address, f.target_address,
                    f.call_to, LogField(f.logs, "Mint"), db_result)
    ELSE None

\* ActionCollection::dispatch -> Option<(DexPriceMsg, Actions)>: the pricing
\* message and the action come together or not at all
dispatch(f, db_result) ==
    LET a == Decode(f, db_result)
    IN  IF a = None THEN None
        ELSE [msg |-> [kind |-> "Update", pool |-> f.target_address,
                       action |-> a.kind],
              action |-> a]

ClassifierInit ==
    /\ db \in DbResults
    /\ frame = None
    /\ decoded = None
    /\ edges = <<>>
    /\ state = Empty
    /\ sg = None
    /\ pc = "idle"
    /\ visited = {}
    /\ scores = Empty
    /\ node_price = Empty
    /\ visit_next = {}
    /\ relaxed = {}
    /\ via = Empty
    /\ ret = None
    /\ prices = Empty
    /\ RunIdle
    /\ added = None

\* the classifier hands one call frame to dispatch
Dispatch ==
    /\ \E f \in Frames :
          /\ frame' = f
          /\ decoded' = dispatch(f, db)
    /\ UNCHANGED db
    /\ UNCHANGED <<pvars, rvars, xvars>>

ClassifierNext == Dispatch

ClassifierSpec == ClassifierInit /\ [][ClassifierNext]_vars

\* ------------------------------------------------------------------------
\* The run command: RunArgs::execute
\* ------------------------------------------------------------------------
Blocks == 1..MaxBlock

\* the latest block of the chain when the command starts
ChainTip == MaxBlock

Some(x) == [kind |-> "Some", value |-> x]
Ok == [kind |-> "Ok"]
Err(msg) == [kind |-> "Err", msg |-> msg]

\* start_block: u64, end_block: Option<u64>, run_dex_pricing: bool
RunArgs ==
    [start_block : Blocks,
     end_block : {None} \cup { Some(b) : b \in Blocks },
     run_dex_pricing : BOOLEAN]

\* how the statements before the range verification end: all succeed, or
\* get_env_vars()? fails, or quote_asset.parse()? fails, or BRONTES_DB_PATH
\* is not set (expect panics), or init_db(..)? fails
SetupOutcomes == {"ok", "env_err", "quote_err", "no_db_path", "db_err"}

\* what execute finds around it: the outcome of the setup statements and
\* the answer of parser.get_latest_block_number()
Envs ==
    [setup : SetupOutcomes,
     latest_block : {[kind |-> "Ok", value |-> ChainTip], Err("provider")}]

\* the outcome of a panic of execute
Panicked(msg) == [kind |-> "Panic", msg |-> msg]

\* what the store holds: the blocks with the state a run reads, the blocks
\* with persisted dex prices, and whether its reads succeed
Stores ==
    [state_blocks : SUBSET Blocks, dex_price_blocks : SUBSET Blocks,
     readable : BOOLEAN]

\* libmdbx.valid_range_state(start_block, end_block) -> Result<bool>
valid_range_state(db_, start_block, end_block) ==
    IF ~db_.readable THEN Err("read")
    ELSE [kind |-> "Ok",
          value |-> \A b \in start_block..end_block : b \in db_.state_blocks]

\* `// verify block range validity`: only when end_block is given
verify_range(a, db_) ==
    IF a.end_block = None THEN Ok
    ELSE LET r == valid_range_state(db_, a.start_block, a.end_block.value)
         IN  IF r.kind = "Err" THEN r
             ELSE IF ~r.value THEN Err("do not have all the libmdbx state")
             ELSE Ok

\* `// check to make sure that we have the dex-prices for the range`
check_dex_prices(a) ==
    IF ~a.run_dex_pricing /\ a.end_block = None
    THEN Err("need end block if we aren't running the dex pricing")
    ELSE Ok

\* the last block the orchestrator drives to
LastBlock(a) == IF a.end_block = None THEN ChainTip ELSE a.end_block.value

RunInit ==
    /\ args \in RunArgs
    /\ libmdbx \in Stores
    /\ env \in Envs
    /\ rpc = "setup"
    /\ result = None
    /\ spawned = FALSE
    /\ processed = {}
    /\ db = None
    /\ frame = None
    /\ decoded = None
    /\ edges = <<>>
    /\ state = Empty
    /\ sg = None
    /\ pc = "idle"
    /\ visited = {}
    /\ scores = Empty
    /\ node_price = Empty
    /\ visit_next = {}
    /\ relaxed = {}
    /\ via = Empty
    /\ ret = None
    /\ prices = Empty
    /\ added = None

\* execute up to the opening of the store: the environment variables, the
\* quote asset, BRONTES_DB_PATH and init_db; a failure ends execute before
\* any check of the range
Setup ==
    /\ rpc = "setup"
    /\ IF env.setup = "ok"
       THEN rpc' = "verify" /\ result' = None
       ELSE IF env.setup = "no_db_path"
       THEN rpc' = "panicked" /\ result' = Panicked("No BRONTES_DB_PATH")
       ELSE rpc' = "returned" /\ result' = Err(env.setup)
    /\ UNCHANGED <<args, libmdbx, spawned, processed, env>>
    /\ UNCHANGED <<pvars, cvars, xvars>>

\* the range verification and the dex-pricing check: an early return of an
\* error, or on to the request for the latest block number
Checks ==
    /\ rpc = "verify"
    /\ \E v \in {verify_range(args, libmdbx)} :
       \E c \in {check_dex_prices(args)} :
          IF v.kind = "Err"
          THEN rpc' = "returned" /\ result' = v
          ELSE IF c.kind = "Err"
          THEN rpc' = "returned" /\ result' = c
          ELSE rpc' = "latest_block" /\ result' = None
    /\ UNCHANGED <<args, libmdbx, spawned, processed, env>>
    /\ UNCHANGED <<pvars, cvars, xvars>>

\* get_latest_block_number() has answered (after an await in a build with
\* the feature "local"): unwrap panics on an error, otherwise the Brontes
\* task is spawned
SpawnBrontes ==
    /\ rpc = "latest_block"
    /\ IF env.latest_block.kind = "Err"
       THEN /\ rpc' = "panicked"
            /\ result' = Panicked("unwrap on Err")
            /\ spawned' = FALSE
       ELSE /\ rpc' = "running"
            /\ result' = None
            /\ spawned' = TRUE
    /\ UNCHANGED <<args, libmdbx, processed, env>>
    /\ UNCHANGED <<pvars, cvars, xvars>>

\* the orchestrator processes its next block
ProcessBlock ==
    /\ rpc = "running"
    /\ \E b \in {args.start_block + Cardinality(processed)} :
          /\ b <= LastBlock(args)
          /\ processed' = processed \cup {b}
    /\ UNCHANGED <<args, libmdbx, rpc, result, spawned, env>>
    /\ UNCHANGED <<pvars, cvars, xvars>>

\* the Brontes task ends (range done or graceful shutdown): `crit.await`
\* completes and execute returns Ok(())
Shutdown ==
    /\ rpc = "running"
    /\ rpc' = "returned"
    /\ result' = Ok
    /\ UNCHANGED <<args, libmdbx, spawned, processed, env>>
    /\ UNCHANGED <<pvars, cvars, xvars>>

RunNext ==
    \/ Setup
    \/ Checks
    \/ SpawnBrontes
    \/ ProcessBlock
    \/ Shutdown

RunSpec == RunInit /\ [][RunNext]_vars

\* ------------------------------------------------------------------------
\* Quantities the properties are stated with
\* ------------------------------------------------------------------------
\* a dijkstra_path call has started on the current sub-graph
Running == pc \in {"run", "done"}

\* sum of p_i * (t0_i + t1_i) over the pools of a bundle
RECURSIVE PriceTimesTvl(_, _, _)
PriceTimesTvl(st, bundle, i) ==
    IF i > Len(bundle) THEN ZERO
    ELSE LET tv == get_tvl(st[bundle[i].pool_addr], bundle[i])
         IN  RAdd(RMul(get_price(st[bundle[i].pool_addr], bundle[i]),
                       RAdd(tv[1], tv[2])),
                  PriceTimesTvl(st, bundle, i + 1))

\* sum of the k-th liquidity side over the pools of a bundle
RECURSIVE SideTotal(_, _, _, _)
SideTotal(st, bundle, k, i) ==
    IF i > Len(bundle) THEN ZERO
    ELSE RAdd(get_tvl(st[bundle[i].pool_addr], bundle[i])[k],
              SideTotal(st, bundle, k, i + 1))

TotalTvl(st, bundle) ==
    RAdd(SideTotal(st, bundle, 1, 1), SideTotal(st, bundle, 2, 1))

\* sum p_i t_i / sum t_i
BundleMean(st, bundle) ==
    RDiv(PriceTimesTvl(st, bundle, 1), TotalTvl(st, bundle))

\* the price reported by the last pool of a bundle
LastPoolPrice(st, bundle) ==
    get_price(st[bundle[Len(bundle)].pool_addr], bundle[Len(bundle)])

\* the bundle of the adjacency u -> v
BundleOf(g, u, v) == (CHOOSE e \in g : e.source = u /\ e.target = v).weight

\* the node from which n's node price was last set
Pred(n) == via[n][Len(via[n]) - 1]

\* the running price of a node: 1 for the start node
PriceAt(u) == IF u = sg.start_node THEN ONE ELSE node_price[u]

\* simple paths of the graph that extend `path` up to the goal
RECURSIVE PathsFrom(_, _, _)
PathsFrom(g, path, goal) ==
    IF path[Len(path)] = goal THEN {path}
    ELSE UNION { PathsFrom(g, Append(path, e.target), goal) :
                 e \in { x \in g : /\ x.source = path[Len(path)]
                                   /\ \A k \in 1..Len(path) :
                                         path[k] # x.target } }

GoalPaths == PathsFrom(sg.graph, <<sg.start_node>>, sg.end_node)

\* cumulative cost and running price along a path, edge by edge as
\* dijkstra_path computes them; ok is FALSE when an edge has zero weight
RECURSIVE PathCalc(_, _, _, _, _, _)
PathCalc(st, g, path, i, score, price) ==
    IF i >= Len(path) THEN [ok |-> TRUE, score |-> score, price |-> price]
    ELSE LET c == EdgeCalc(st,
                     CHOOSE e \in g : /\ e.source = path[i]
                                      /\ e.target = path[i + 1],
                     score, price)
         IN  IF c.skipped \/ c.panicked THEN [ok |-> FALSE]
             ELSE PathCalc(st, g, path, i + 1, c.next_score, c.new_price)

PathCost(path) == PathCalc(state, sg.graph, path, 1, ZERO, ONE)

\* product of the bundle means along a path
RECURSIVE PathMeanProduct(_, _, _, _)
PathMeanProduct(st, g, path, i) ==
    IF i >= Len(path) THEN ONE
    ELSE RMul(BundleMean(st, BundleOf(g, path[i], path[i + 1])),
              PathMeanProduct(st, g, path, i + 1))

\* nodes reachable from the start through bundles of nonzero total TVL
RECURSIVE NzClosure(_, _, _)
NzClosure(st, g, seen) ==
    LET more == { e.target : e \in { x \in g :
                        /\ x.source \in seen
                        /\ x.target \notin seen
                        /\ TotalTvl(st, x.weight) # ZERO } }
    IN  IF more = {} THEN seen ELSE NzClosure(st, g, seen \cup more)

NzReachable == NzClosure(state, sg.graph, {sg.start_node})

\* every pool of the edge list is an edge in both directions
BothDirections ==
    \A i \in 1..Len(edges) : \E j \in 1..Len(edges) :
        /\ edges[j].pool_addr = edges[i].pool_addr
        /\ edges[j].token_0_in # edges[i].token_0_in

NonzeroTvl ==
    \A p \in DOMAIN state : RAdd(state[p].l0, state[p].l1) # ZERO

Priced(pair) == pair \in DOMAIN prices /\ prices[pair].kind = "price"

\* ------------------------------------------------------------------------
\* Properties
\* ------------------------------------------------------------------------
\* C1: whenever the goal is reached, the path along which the returned
\* price was derived has the least cumulative cost (sum of 1/tvl over its
\* edges) among all start-to-goal paths of the sub-graph.
C1_DijkstraOptimal ==
    (pc = "done" /\ ret # None) =>
        \A p \in GoalPaths :
            PathCost(p).ok =>
                RLeq(PathCost(via[sg.end_node]).score, PathCost(p).score)

\* C2: when the sub-graph holds every pool in both directions and every
\* pool has nonzero TVL, price(A,B) * price(B,A) = 1 under one snapshot.
C2_PriceSymmetry ==
    (/\ Priced(<<"A", "B">>)
     /\ Priced(<<"B", "A">>)
     /\ BothDirections
     /\ NonzeroTvl) =>
        RMul(prices[<<"A", "B">>].value, prices[<<"B", "A">>].value) = ONE

SingleAdjacency ==
    /\ \E e \in sg.graph : e.source = sg.start_node /\ e.target = sg.end_node
    /\ \A e \in sg.graph :
          {e.source, e.target} = {sg.start_node, sg.end_node}

GoalBundle == BundleOf(sg.graph, sg.start_node, sg.end_node)

\* C3: on a sub-graph that is a single start-to-goal adjacency whose bundle
\* has nonzero total TVL, the returned price is sum(p_i * t_i) / sum(t_i)
\* with t_i = t0_i + t1_i.
C3_BundleMean ==
    (pc = "done" /\ SingleAdjacency /\ TotalTvl(state, GoalBundle) # ZERO) =>
        ret = BundleMean(state, GoalBundle)

\* two parallel pools of TVL 1 and 3 with prices 1 and 26/25 give 103/100
C3_Witness ==
    /\ pc = "done"
    /\ SingleAdjacency
    /\ Len(GoalBundle) = 2
    /\ get_price(state[GoalBundle[1].pool_addr], GoalBundle[1]) = <<1, 1>>
    /\ get_price(state[GoalBundle[2].pool_addr], GoalBundle[2]) = <<26, 25>>
    /\ RAdd(get_tvl(state[GoalBundle[2].pool_addr], GoalBundle[2])[1],
            get_tvl(state[GoalBundle[2].pool_addr], GoalBundle[2])[2])
         = RMul(<<3, 1>>,
                RAdd(get_tvl(state[GoalBundle[1].pool_addr], GoalBundle[1])[1],
                     get_tvl(state[GoalBundle[1].pool_addr], GoalBundle[1])[2]))
    /\ ret = <<103, 100>>

\* C4: the start is queued with price 1; every node price is the node price
\* of the node it was relaxed from times 1 / (bundle mean of that edge); the
\* returned value is the reciprocal of the goal's node price, hence the
\* product of the bundle means along the path that set the goal's score.
C4_Composition ==
    /\ (pc = "run" /\ visited = {}) =>
          visit_next = {[score |-> ZERO, node |-> sg.start_node, price |-> ONE]}
    /\ Running =>
          \A n \in DOMAIN node_price :
              node_price[n] =
                  RMul(PriceAt(Pred(n)),
                       Reciprocal(BundleMean(state,
                                      BundleOf(sg.graph, Pred(n), n))))
    /\ (pc = "done" /\ ret # None) =>
          /\ ret = Reciprocal(node_price[sg.end_node])
          /\ ret = PathMeanProduct(state, sg.graph, via[sg.end_node], 1)

\* a price returned along a two-hop path whose edges both move the price
C4_Witness ==
    /\ pc = "done"
    /\ ret # None
    /\ Len(via[sg.end_node]) = 3
    /\ node_price[Pred(sg.end_node)] # ONE
    /\ node_price[sg.end_node] # node_price[Pred(sg.end_node)]

\* the bundle TVL with the price of the bundle's last pool as the factor
TvlByLastPrice(st, bundle) ==
    RAdd(RMul(SideTotal(st, bundle, 1, 1), LastPoolPrice(st, bundle)),
         RMul(SideTotal(st, bundle, 2, 1),
              RDiv(LastPoolPrice(st, bundle), BundleMean(st, bundle))))

\* the bundle TVL with the running price of the source node as the factor
TvlByNodePrice(st, bundle, price) ==
    RAdd(RMul(SideTotal(st, bundle, 1, 1), price),
         RMul(SideTotal(st, bundle, 2, 1),
              RDiv(price, BundleMean(st, bundle))))

\* C5 as stated: the cost a relaxation of u -> v adds to the score is
\* 1 / ((sum t0) * p_last + (sum t1) * p_last / lwp), p_last the price of
\* the bundle's last pool, so it depends on the bundle's pool states only.
C5_CostByLastPrice ==
    Running =>
        \A n \in DOMAIN node_price :
            scores[n] =
                RAdd(scores[Pred(n)],
                     Reciprocal(TvlByLastPrice(state,
                                    BundleOf(sg.graph, Pred(n), n))))

\* C5 amended: the cost a relaxation of u -> v adds to the score is
\* 1 / ((sum t0) * price_u + (sum t1) * price_u / lwp), price_u the running
\* node price popped with u (1 at the start), so it depends on the path
\* by which u was reached.
C5_CostByNodePrice ==
    Running =>
        \A n \in DOMAIN node_price :
            scores[n] =
                RAdd(scores[Pred(n)],
                     Reciprocal(TvlByNodePrice(state,
                                    BundleOf(sg.graph, Pred(n), n),
                                    PriceAt(Pred(n)))))

\* an edge relaxed from a node whose running price is not 1 and differs
\* from the price of the bundle's last pool
C5_Witness ==
    /\ Running
    /\ \E n \in DOMAIN node_price :
          /\ Pred(n) # sg.start_node
          /\ PriceAt(Pred(n)) # ONE
          /\ PriceAt(Pred(n)) #
                LastPoolPrice(state, BundleOf(sg.graph, Pred(n), n))

\* C6: when no path of nonzero TVL leads from start to goal, fetch_price
\* hands its caller an absent price and does not panic.
C6_GapIsAbsentPrice ==
    (pc = "done" /\ sg.end_node \notin NzReachable) =>
        prices[sg.pair].kind = "absent"

\* C7: an edge whose bundle has zero total TVL records no score, no node
\* price and no frontier entry for its target, and dijkstra_path returns
\* None when the goal is not reachable through edges of nonzero weight.
C7_ZeroWeightSkipped ==
    Running =>
        /\ \A n \in DOMAIN node_price :
              TotalTvl(state, BundleOf(sg.graph, Pred(n), n)) # ZERO
        /\ DOMAIN scores = DOMAIN node_price \cup {sg.start_node}
        /\ { m.node : m \in visit_next } \subseteq DOMAIN scores
        /\ DOMAIN scores \subseteq NzReachable
        /\ (pc = "done" /\ sg.end_node \notin NzReachable) => ret = None

\* the goal is adjacent to an expanded node only through a zero-weight
\* bundle, and the call returned None
C7_Witness ==
    /\ pc = "done"
    /\ ret = None
    /\ \E c \in relaxed : c.skipped /\ c.next = sg.end_node

SwapFrame(f) ==
    /\ f # None
    /\ f.selector = "swap"
    /\ Len(f.logs) = 2
    /\ f.logs[1].sig = "Sync"
    /\ f.logs[2].sig = "Swap"

\* C8: a swap frame with logs [Sync, Swap] on a pool with known tokens
\* (T0, T1) and exactly one nonzero in-amount decodes to a Swap from the
\* token with the nonzero in-amount to the other token, with that in-amount
\* and the other token's out-amount, pool = target, from = the frame's from
\* address, recipient = the call's `to`.
C8_SwapDirection ==
    (SwapFrame(frame) /\ TokensOf(db) # None) =>
        LET l == frame.logs[2]
        IN  /\ (l.amount0In # 0 /\ l.amount1In = 0) =>
                  /\ decoded # None
                  /\ decoded.action =
                        [kind |-> "Swap", pool |-> frame.target_address,
                         trace_index |-> frame.trace_index,
                         from |-> frame.from_address,
                         recipient |-> frame.call_to,
                         token_in |-> "T0", token_out |-> "T1",
                         amount_in |-> l.amount0In,
                         amount_out |-> l.amount1Out]
            /\ (l.amount0In = 0 /\ l.amount1In # 0) =>
                  /\ decoded # None
                  /\ decoded.action =
                        [kind |-> "Swap", pool |-> frame.target_address,
                         trace_index |-> frame.trace_index,
                         from |-> frame.from_address,
                         recipient |-> frame.call_to,
                         token_in |-> "T1", token_out |-> "T0",
                         amount_in |-> l.amount1In,
                         amount_out |-> l.amount0Out]

\* amount0In = 100, amount1Out = 90 decoded as T0 -> T1, 100 for 90
C8_Witness ==
    /\ SwapFrame(frame)
    /\ frame.logs[2] = [sig |-> "Swap", amount0In |-> 100, amount1In |-> 0,
                        amount0Out |-> 0, amount1Out |-> 90]
    /\ decoded # None
    /\ decoded.action.token_in = "T0"
    /\ decoded.action.token_out = "T1"
    /\ decoded.action.amount_in = 100
    /\ decoded.action.amount_out = 90

\* C9: a swap frame whose Swap log has amount0In = amount1In = 0 decodes
\* to None, so that no Swap action with amount_in = 0 is produced.
C9_ZeroSwapIsNone ==
    (/\ SwapFrame(frame)
     /\ frame.logs[2].amount0In = 0
     /\ frame.logs[2].amount1In = 0) => decoded = None

\* C10: a frame with the swap selector whose logs are [Sync] only is not
\* decoded: dispatch returns None, neither an action nor a pricing message.
C10_SyncOnlyUnclassified ==
    (/\ frame # None
     /\ frame.selector = "swap"
     /\ frame.logs = <<SyncLog>>) => decoded = None

\* such a frame was dispatched while the pool's tokens are known
C10_Witness ==
    /\ frame # None
    /\ frame.selector = "swap"
    /\ frame.logs = <<SyncLog>>
    /\ TokensOf(db) # None
    /\ decoded = None

\* the lookup erred, or found no entry for the pool
MissingTokens(r) == r.kind = "Err" \/ r.value = None

\* a frame whose selector has a decoder and whose logs match its pattern
Decodable(f) ==
    \/ f.selector = "swap" /\ MatchLogs(V2SwapPattern, f.logs, 1, 1)
    \/ f.selector = "mint" /\ MatchLogs(V2MintPattern, f.logs, 1, 1)
    \/ f.selector = "burn" /\ MatchLogs(V2BurnPattern, f.logs, 1, 1)

\* C11: when the token lookup for the target pool errs or finds no entry,
\* the swap, mint and burn decoders all return None: dispatch yields
\* neither an action nor a pricing message for any frame, and nothing else
\* (no error value, no action with unknown tokens) comes out.
C11_MissingTokensIsNone ==
    (frame # None /\ MissingTokens(db)) => decoded = None

\* a mint frame whose logs match the mint pattern was dispatched while the
\* lookup erred, and it was left undecoded
C11_Witness ==
    /\ frame # None
    /\ frame.selector = "mint"
    /\ Decodable(frame)
    /\ db.kind = "Err"
    /\ decoded = None

\* the blocks of the requested range: up to end_block, or up to the chain
\* tip for an unbounded run
RequestedRange == args.start_block..LastBlock(args)

\* the store holds the state of every block of the requested range
RangeAvailable == \A b \in RequestedRange : b \in libmdbx.state_blocks

\* C12: when the requested range lacks persisted state, execute returns an
\* error before the Brontes task is spawned and no block is processed, for
\* runs with and without end_block.
C12_RangeUnavailableIsFatal ==
    (rpc # "off" /\ ~RangeAvailable) =>
        /\ ~spawned
        /\ processed = {}
        /\ rpc = "returned" => result.kind = "Err"

\* the persisted dex prices cover [start_block, end_block]
DexPricesPersisted ==
    /\ args.end_block # None
    /\ \A b \in args.start_block..args.end_block.value :
          b \in libmdbx.dex_price_blocks

\* C13: with run_dex_pricing = false the Brontes task is spawned only when
\* end_block is given and the persisted dex prices cover the whole range;
\* otherwise execute returns an error without spawning it.
C13_NoPricingNeedsPrices ==
    (rpc # "off" /\ ~args.run_dex_pricing) =>
        /\ spawned => DexPricesPersisted
        /\ (rpc = "returned" /\ ~DexPricesPersisted) => result.kind = "Err"

\* the adjacency from the in-token of edge e to its out-token holds e
InBundle(g, e) ==
    \E ge \in g.graph :
        /\ ge.source = g.token_to_index[get_base_token(e)]
        /\ ge.target = g.token_to_index[get_quote_token(e)]
        /\ \E k \in 1..Len(ge.weight) : ge.weight[k] = e

\* the edge leads from the start token of the pair to its goal token: a path
\* of length one between the endpoints, within every length budget
DirectEdge(g, e) ==
    /\ get_base_token(e) = g.pair[1]
    /\ get_quote_token(e) = g.pair[2]

\* C14: after add_new_node returned for a pool whose two tokens are nodes
\* of the subgraph and whose edge joins the endpoints directly, the bundle
\* of the adjacency between the two tokens contains that pool.
C14_AddedPoolInBundle ==
    (pc = "ready" /\ added # None /\ ~AddPanics(sg, added)
        /\ DirectEdge(sg, added)) => InBundle(sg, added)

\* the graph edges from the node of token u to the node of token v
EdgesBetween(g, u, v) ==
    { ge \in g.graph : /\ ge.source = g.token_to_index[u]
                       /\ ge.target = g.token_to_index[v] }

\* the input edges with in-token u and out-token v, in input order
InputBundle(es, u, v) ==
    LET Test(e) == get_base_token(e) = u /\ get_quote_token(e) = v
    IN  SelectSeq(es, Test)

\* C15: after init, for every ordered pair of tokens (u, v) the graph has
\* at most one edge from u's node to v's node; its bundle is exactly the
\* input edges with in-token u and out-token v (none when there is no such
\* input edge); and every stored edge leaves the node of its in-token.
C15_StorageInvariant ==
    pc = "ready" =>
        /\ \A u \in DOMAIN sg.token_to_index :
           \A v \in DOMAIN sg.token_to_index :
              /\ Cardinality(EdgesBetween(sg, u, v)) <= 1
              /\ IF InputBundle(edges, u, v) = <<>>
                 THEN EdgesBetween(sg, u, v) = {}
                 ELSE \E ge \in EdgesBetween(sg, u, v) :
                         ge.weight = InputBundle(edges, u, v)
        /\ \A ge \in sg.graph : \A k \in 1..Len(ge.weight) :
              ge.source = sg.token_to_index[get_base_token(ge.weight[k])]

\* init has stored a bundle of two parallel pools and the adjacency of the
\* opposite direction between the same two nodes
C15_Witness ==
    /\ pc = "ready"
    /\ \E ge \in sg.graph :
          /\ Len(ge.weight) = 2
          /\ \E back \in sg.graph :
                back.source = ge.target /\ back.target = ge.source

\* the distinct tokens of the input edges
InputTokens(es) ==
    { es[i].token_0 : i \in DOMAIN es } \cup { es[i].token_1 : i \in DOMAIN es }

\* the nodes of the graph: petgraph indexes them 0 .. node_count - 1
Nodes(g) == 0..(g.node_count - 1)

\* C16: after init, token_to_index maps the distinct tokens of the input
\* edges one-to-one onto the nodes of the graph (every node is the node of
\* a token), and start_node / end_node are the nodes of pair.0 / pair.1.
C16_NodeBijection ==
    pc = "ready" =>
        /\ DOMAIN sg.token_to_index = InputTokens(edges)
        /\ \A t \in InputTokens(edges) : \A u \in InputTokens(edges) :
              sg.token_to_index[t] = sg.token_to_index[u] => t = u
        /\ { sg.token_to_index[t] : t \in InputTokens(edges) } = Nodes(sg)
        /\ sg.start_node = sg.token_to_index[sg.pair[1]]
        /\ sg.end_node = sg.token_to_index[sg.pair[2]]

\* C17: for a pair whose start and goal are the same token, the price
\* handed to the caller is 1, not an absent price and not a failure.
C17_IdentityPrice ==
    (pc = "done" /\ sg.start_node = sg.end_node) =>
        prices[sg.pair] = [kind |-> "price", value |-> ONE]

====
